---- MODULE Spec2Model ----
(***************************************************************************)
(* Price-feed data model of hermes-types (src/src/lib.rs) and its          *)
(* conversions: the client view builder, the binary envelope and the       *)
(* envelope-to-domain converter, the identifier text codec and the         *)
(* decimal-string serialisation of RpcPrice.                               *)
(*                                                                         *)
(* Text is a sequence of one-character strings, a byte sequence a sequence *)
(* of 0..255.  64-bit integers are bit patterns of four 16-bit limbs, most *)
(* significant first, so that values at the i64/u64 limits are exact.      *)
(***************************************************************************)
EXTENDS Integers, Sequences, FiniteSets, TLC

VARIABLES
    price_update,   \* the envelope (PriceUpdate) under construction / converted
    raw,            \* per data entry: Some(bytes) given to encode_str, None for foreign text
    originals,      \* per parsed record: the PriceFeedUpdate it was projected from
    result,         \* None before the conversion, Some(Ok(..) | Err(..)) after
    view_in,        \* arguments of from_price_feed_update: [u, verbose, binary]
    view_out,       \* None, or Some(RpcPriceFeed)
    id_type,        \* "PriceIdInput" | "RpcPriceIdentifier"
    id_start,       \* what the identifier run started from: [kind, val]
    id_cur,         \* the current value of the identifier run: [kind, val]
    id_n,           \* conversions applied in the identifier run
    rp_in,          \* the RpcPrice being serialised
    rp_json,        \* None, or Some(the JSON object written)
    rp_out          \* None, or Some(Ok(RpcPrice) | Err(..)) read back

envVars == <<price_update, raw, originals, result>>
viewVars == <<view_in, view_out>>
idVars == <<id_type, id_start, id_cur, id_n>>
rpVars == <<rp_in, rp_json, rp_out>>
vars == <<price_update, raw, originals, result, view_in, view_out, id_type, id_start, id_cur, id_n, rp_in, rp_json, rp_out>>

(***************************************************************************)
(* Option and Result                                                       *)
(***************************************************************************)
None == [some |-> FALSE]
Some(x) == [some |-> TRUE, val |-> x]
Ok(x) == [ok |-> TRUE, val |-> x]
Err(e) == [ok |-> FALSE, err |-> e]

(***************************************************************************)
(* Bounds                                                                  *)
(***************************************************************************)
MaxData == 2
MaxParsed == 2
MaxSteps == 2
Near == 1

(***************************************************************************)
(* hex and base64 codecs                                                   *)
(***************************************************************************)
HexLower == <<"0","1","2","3","4","5","6","7","8","9","a","b","c","d","e","f">>
HexUpper == <<"0","1","2","3","4","5","6","7","8","9","A","B","C","D","E","F">>

Base64Alphabet ==
    <<"A","B","C","D","E","F","G","H","I","J","K","L","M","N","O","P",
      "Q","R","S","T","U","V","W","X","Y","Z","a","b","c","d","e","f",
      "g","h","i","j","k","l","m","n","o","p","q","r","s","t","u","v",
      "w","x","y","z","0","1","2","3","4","5","6","7","8","9","+","/">>

IsHexDigit(c) == \E i \in 1..16 : HexLower[i] = c \/ HexUpper[i] = c

HexVal(c) == (CHOOSE i \in 1..16 : HexLower[i] = c \/ HexUpper[i] = c) - 1

\* a plausible slip: the upper-case table
hex_encode_upper(data) ==
    [i \in 1..(2 * Len(data)) |->
        LET b == data[(i + 1) \div 2]
        IN  IF i % 2 = 1 THEN HexUpper[(b \div 16) + 1] ELSE HexUpper[(b % 16) + 1]]

\* hex::encode: two lower-case digits per byte, high nibble first
hex_encode(data) ==
    [i \in 1..(2 * Len(data)) |->
        LET b == data[(i + 1) \div 2]
        IN  IF i % 2 = 1 THEN HexLower[(b \div 16) + 1] ELSE HexLower[(b % 16) + 1]]

\* hex::decode: odd length is an error, then the first non-hex character is
hex_decode(text) ==
    IF Len(text) % 2 # 0
    THEN Err([kind |-> "OddLength"])
    ELSE IF \E i \in 1..Len(text) : ~IsHexDigit(text[i])
         THEN Err([kind |-> "InvalidHexCharacter",
                   index |-> (CHOOSE i \in 1..Len(text) :
                                 /\ ~IsHexDigit(text[i])
                                 /\ \A j \in 1..(i - 1) : IsHexDigit(text[j])) - 1])
         ELSE Ok([i \in 1..(Len(text) \div 2) |->
                     HexVal(text[2 * i - 1]) * 16 + HexVal(text[2 * i])])

\* base64 STANDARD engine: 3 bytes -> 4 characters, '=' padding
base64_encode(data) ==
    LET n == Len(data)
        groups == (n + 2) \div 3
        Byte(i) == IF i <= n THEN data[i] ELSE 0
        Chunk(g) == Byte(3 * g - 2) * 65536 + Byte(3 * g - 1) * 256 + Byte(3 * g)
        Avail(g) == IF n - 3 * (g - 1) >= 3 THEN 3 ELSE n - 3 * (g - 1)
        Sextet(g, k) == (Chunk(g) \div (64 ^ (3 - k))) % 64
    IN  [i \in 1..(4 * groups) |->
            LET g == (i + 3) \div 4
                k == (i - 1) % 4
            IN  IF k <= Avail(g) THEN Base64Alphabet[Sextet(g, k) + 1] ELSE "="]

(***************************************************************************)
(* EncodingType                                                            *)
(***************************************************************************)
EncodingType == {"Hex", "Base64"}

encode_str(encoding, data) ==
    IF encoding = "Base64" THEN base64_encode(data) ELSE hex_encode(data)

(***************************************************************************)
(* 64-bit integers as four 16-bit limbs, most significant first            *)
(***************************************************************************)
Base == 2 ^ 16
SignLimb == 2 ^ 15

Zero64 == <<0, 0, 0, 0>>
IsZero(x) == x = Zero64

\* x * m + a over 64 bits: the low 64 bits and what was carried out
MulAdd(x, m, a) ==
    LET c0 == x[4] * m + a
        c1 == x[3] * m + (c0 \div Base)
        c2 == x[2] * m + (c1 \div Base)
        c3 == x[1] * m + (c2 \div Base)
    IN  [val |-> <<c3 % Base, c2 % Base, c1 % Base, c0 % Base>>,
         carry |-> c3 \div Base]

\* x / 10 and x % 10 by long division over the limbs
DivMod10(x) ==
    LET t1 == x[1]
        t2 == (t1 % 10) * Base + x[2]
        t3 == (t2 % 10) * Base + x[3]
        t4 == (t3 % 10) * Base + x[4]
    IN  [quot |-> <<t1 \div 10, t2 \div 10, t3 \div 10, t4 \div 10>>,
         rem |-> t4 % 10]

Not64(x) == [i \in 1..4 |-> Base - 1 - x[i]]
wrapping_add(x, k) == MulAdd(x, 1, k).val
wrapping_neg(x) == wrapping_add(Not64(x), 1)
wrapping_sub(x, k) == wrapping_neg(wrapping_add(wrapping_neg(x), k))
IsNegative(x) == x[1] >= SignLimb
FromNat(n) == <<0, 0, n \div Base, n % Base>>
FromInt(n) == IF n >= 0 THEN FromNat(n) ELSE wrapping_neg(FromNat(0 - n))

DecDigits == <<"0","1","2","3","4","5","6","7","8","9">>
IsDecDigit(c) == \E i \in 1..10 : DecDigits[i] = c
DecVal(c) == (CHOOSE i \in 1..10 : DecDigits[i] = c) - 1

RECURSIVE Digits64(_)
Digits64(x) ==
    IF IsZero(x) THEN <<>>
    ELSE LET d == DivMod10(x) IN Append(Digits64(d.quot), DecDigits[d.rem + 1])

\* <u64 as Display>::to_string
u64_to_string(x) == IF IsZero(x) THEN <<"0">> ELSE Digits64(x)

\* <i64 as Display>::to_string: '-' and the magnitude
i64_to_string(x) ==
    IF IsNegative(x) THEN <<"-">> \o u64_to_string(wrapping_neg(x)) ELSE u64_to_string(x)

\* whether magnitude m (with carry c) fits the type: checked_mul / checked_add / checked_sub
Fits(m, c, signed, positive) ==
    /\ c = 0
    /\ signed => \/ m[1] < SignLimb
                 \/ ~positive /\ m = <<SignLimb, 0, 0, 0>>

RECURSIVE ParseDigits(_, _, _, _)
ParseDigits(text, acc, signed, positive) ==
    IF text = <<>> THEN Ok(acc)
    ELSE IF ~IsDecDigit(Head(text)) THEN Err("InvalidDigit")
    ELSE LET m == MulAdd(acc, 10, DecVal(Head(text)))
         IN  IF ~Fits(m.val, m.carry, signed, positive)
             THEN Err(IF positive THEN "PosOverflow" ELSE "NegOverflow")
             ELSE ParseDigits(Tail(text), m.val, signed, positive)

\* core::num from_str_radix(src, 10) for u64 (signed = FALSE) and i64 (signed = TRUE)
from_str(text, signed) ==
    IF text = <<>> THEN Err("Empty")
    ELSE IF Len(text) = 1 /\ Head(text) \in {"+", "-"} THEN Err("InvalidDigit")
    ELSE IF Head(text) = "+" THEN ParseDigits(Tail(text), Zero64, signed, TRUE)
    ELSE IF Head(text) = "-" /\ signed
         THEN LET r == ParseDigits(Tail(text), Zero64, signed, FALSE)
              IN  IF r.ok THEN Ok(wrapping_neg(r.val)) ELSE r
    ELSE ParseDigits(text, Zero64, signed, TRUE)

(***************************************************************************)
(* Domain types                                                            *)
(***************************************************************************)
IdLen == 32

\* pyth_sdk::Price as the code builds it
Price(price, conf, expo, publish_time) ==
    [price |-> price, conf |-> conf, expo |-> expo, publish_time |-> publish_time]

\* RpcPrice: the same four fields
RpcPrice(price, conf, expo, publish_time) ==
    [price |-> price, conf |-> conf, expo |-> expo, publish_time |-> publish_time]

PriceFeedUpdate(id, price, ema_price, slot, received_at, update_data, prev_publish_time) ==
    [price_feed |-> [id |-> id, price |-> price, ema_price |-> ema_price],
     slot |-> slot,
     received_at |-> received_at,
     update_data |-> update_data,
     prev_publish_time |-> prev_publish_time]

(***************************************************************************)
(* Inputs                                                                  *)
(***************************************************************************)
I64Max == wrapping_sub(<<SignLimb, 0, 0, 0>>, 1)
I64Min == <<SignLimb, 0, 0, 0>>
U64Max == wrapping_sub(Zero64, 1)

IdA == [i \in 1..IdLen |-> (7 * i + 223) % 256]
IdB == [i \in 1..IdLen |-> (i - 1) % 256]
IdC == [i \in 1..IdLen |-> 255]

PriceA == Price(I64Max, U64Max, FromInt(-8), FromNat(1700000000))
PriceB == Price(FromInt(-12345), FromNat(7), FromInt(0), I64Min)
PriceC == Price(Zero64, Zero64, FromInt(5), Zero64)

ByteSeqs == {<<>>, <<171>>, <<1, 2, 3>>, <<105, 183, 29>>}

\* text arriving on the wire that no encode_str call of this envelope produced
ForeignTexts == {<<"z", "z">>, <<"a", "b", "c">>, <<"A", "B">>}

OptTimes == {None, Some(Zero64), Some(FromNat(1700000001))}
OptSlots == {None, Some(Zero64), Some(U64Max)}
OptBytes == {None} \cup {Some(b) : b \in {<<>>, <<1, 2, 3>>}}

\* the domain updates the envelope runs project
EnvUpdates ==
    { PriceFeedUpdate(IdA, PriceA, PriceB, Some(FromNat(42)), Some(FromNat(1700000001)),
                      Some(<<1, 2, 3>>), Some(FromNat(1699999999))),
      PriceFeedUpdate(IdB, PriceB, PriceC, None, Some(Zero64), None, None),
      PriceFeedUpdate(IdA, PriceC, PriceA, Some(Zero64), None, Some(<<>>), Some(Zero64)) }

\* the domain updates the view builder runs project
ViewUpdates ==
    { PriceFeedUpdate(id, p[1], p[2], slot, received_at, update_data, prev)
        : id \in {IdA, IdB}, p \in {<<PriceA, PriceB>>, <<PriceC, PriceA>>},
          slot \in OptSlots, received_at \in OptTimes,
          update_data \in OptBytes, prev \in {None, Some(FromNat(1699999999))} }

(***************************************************************************)
(* ParsedPriceUpdate and the envelope-to-domain conversion                 *)
(***************************************************************************)
\* a plausible slip: the two timestamps are exchanged
ParsedPriceUpdate_from_swapped(price_feed_update) ==
    LET price_feed == price_feed_update.price_feed
    IN  [id |-> price_feed.id,
         price |-> RpcPrice(price_feed.price.price, price_feed.price.conf,
                            price_feed.price.expo, price_feed.price.publish_time),
         ema_price |-> RpcPrice(price_feed.ema_price.price, price_feed.ema_price.conf,
                                price_feed.ema_price.expo, price_feed.ema_price.publish_time),
         metadata |-> [proof_available_time |-> price_feed_update.prev_publish_time,
                       slot |-> price_feed_update.slot,
                       prev_publish_time |-> price_feed_update.received_at]]

\* From<PriceFeedUpdate> for ParsedPriceUpdate
ParsedPriceUpdate_from(price_feed_update) ==
    LET price_feed == price_feed_update.price_feed
    IN  [id |-> price_feed.id,
         price |-> RpcPrice(price_feed.price.price, price_feed.price.conf,
                            price_feed.price.expo, price_feed.price.publish_time),
         ema_price |-> RpcPrice(price_feed.ema_price.price, price_feed.ema_price.conf,
                                price_feed.ema_price.expo, price_feed.ema_price.publish_time),
         metadata |-> [proof_available_time |-> price_feed_update.received_at,
                       slot |-> price_feed_update.slot,
                       prev_publish_time |-> price_feed_update.prev_publish_time]]

\* a plausible slip: an empty byte vector instead of None
parsed_to_price_feed_update_empty(parsed_price_update) ==
    PriceFeedUpdate(
        parsed_price_update.id,
        Price(parsed_price_update.price.price, parsed_price_update.price.conf,
              parsed_price_update.price.expo, parsed_price_update.price.publish_time),
        Price(parsed_price_update.ema_price.price, parsed_price_update.ema_price.conf,
              parsed_price_update.ema_price.expo, parsed_price_update.ema_price.publish_time),
        parsed_price_update.metadata.slot,
        parsed_price_update.metadata.proof_available_time,
        Some(<<>>),
        parsed_price_update.metadata.prev_publish_time)

\* the closure of try_from: one parsed record back into a PriceFeedUpdate
parsed_to_price_feed_update(parsed_price_update) ==
    PriceFeedUpdate(
        parsed_price_update.id,
        Price(parsed_price_update.price.price, parsed_price_update.price.conf,
              parsed_price_update.price.expo, parsed_price_update.price.publish_time),
        Price(parsed_price_update.ema_price.price, parsed_price_update.ema_price.conf,
              parsed_price_update.ema_price.expo, parsed_price_update.ema_price.publish_time),
        parsed_price_update.metadata.slot,
        parsed_price_update.metadata.proof_available_time,
        None,
        parsed_price_update.metadata.prev_publish_time)

\* hex::decode(hex_str).unwrap_or_default()
decode_entry(hex_str) ==
    LET r == hex_decode(hex_str) IN IF r.ok THEN r.val ELSE <<>>

MissingParsedData == "No parsed price updates available"

\* a plausible slip: a decode failure is propagated with `?`
try_from_strict(pu) ==
    IF ~pu.parsed.some THEN Err(MissingParsedData)
    ELSE IF \E i \in 1..Len(pu.binary.data) : ~hex_decode(pu.binary.data[i]).ok
    THEN Err("decode")
    ELSE Ok([price_feeds |-> [i \in 1..Len(pu.parsed.val) |->
                                 parsed_to_price_feed_update(pu.parsed.val[i])],
             update_data |-> [i \in 1..Len(pu.binary.data) |->
                                 decode_entry(pu.binary.data[i])]])

\* a plausible slip: an absent parsed list is taken for an empty one
try_from_lenient(pu) ==
    Ok([price_feeds |-> IF pu.parsed.some
                        THEN [i \in 1..Len(pu.parsed.val) |->
                                 parsed_to_price_feed_update(pu.parsed.val[i])]
                        ELSE <<>>,
        update_data |-> [i \in 1..Len(pu.binary.data) |-> decode_entry(pu.binary.data[i])]])

\* a plausible slip: the two lists are zipped, the longer one cut
try_from_zipped(pu) ==
    IF ~pu.parsed.some THEN Err(MissingParsedData)
    ELSE LET n == IF Len(pu.parsed.val) < Len(pu.binary.data)
                  THEN Len(pu.parsed.val) ELSE Len(pu.binary.data)
         IN  Ok([price_feeds |-> [i \in 1..n |-> parsed_to_price_feed_update(pu.parsed.val[i])],
                 update_data |-> [i \in 1..n |-> decode_entry(pu.binary.data[i])]])

\* TryFrom<PriceUpdate> for PriceFeedsWithUpdateData
try_from(pu) ==
    IF ~pu.parsed.some THEN Err(MissingParsedData)
    ELSE Ok([price_feeds |-> [i \in 1..Len(pu.parsed.val) |->
                                 parsed_to_price_feed_update(pu.parsed.val[i])],
             update_data |-> [i \in 1..Len(pu.binary.data) |->
                                 decode_entry(pu.binary.data[i])]])

(***************************************************************************)
(* RpcPriceFeed::from_price_feed_update                                    *)
(***************************************************************************)
\* Chain::Pythnet.into()
Pythnet == 26

\* metadata: verbose.then_some(RpcPriceFeedMetadata { .. })
view_metadata(price_feed_update, verbose) ==
    IF verbose
    THEN Some([emitter_chain |-> Pythnet,
               price_service_receive_time |-> price_feed_update.received_at,
               slot |-> price_feed_update.slot,
               prev_publish_time |-> price_feed_update.prev_publish_time])
    ELSE None

\* a plausible slip: absent bytes are encoded as the empty string (unwrap_or_default)
view_vaa_default(price_feed_update, binary) ==
    IF ~binary THEN None
    ELSE Some(base64_encode(IF price_feed_update.update_data.some
                            THEN price_feed_update.update_data.val ELSE <<>>))

\* vaa: match binary { false => None, true => update_data.map(base64 encode) }
view_vaa(price_feed_update, binary) ==
    IF ~binary THEN None
    ELSE IF price_feed_update.update_data.some
         THEN Some(base64_encode(price_feed_update.update_data.val))
         ELSE None

\* a plausible slip: the two flags are exchanged
from_price_feed_update_swapped(price_feed_update, verbose, binary) ==
    LET price_feed == price_feed_update.price_feed
    IN  [id |-> price_feed.id,
         price |-> RpcPrice(price_feed.price.price, price_feed.price.conf,
                            price_feed.price.expo, price_feed.price.publish_time),
         ema_price |-> RpcPrice(price_feed.ema_price.price, price_feed.ema_price.conf,
                                price_feed.ema_price.expo, price_feed.ema_price.publish_time),
         metadata |-> view_metadata(price_feed_update, binary),
         vaa |-> view_vaa(price_feed_update, verbose)]

from_price_feed_update(price_feed_update, verbose, binary) ==
    LET price_feed == price_feed_update.price_feed
    IN  [id |-> price_feed.id,
         price |-> RpcPrice(price_feed.price.price, price_feed.price.conf,
                            price_feed.price.expo, price_feed.price.publish_time),
         ema_price |-> RpcPrice(price_feed.ema_price.price, price_feed.ema_price.conf,
                                price_feed.ema_price.expo, price_feed.ema_price.publish_time),
         metadata |-> view_metadata(price_feed_update, verbose),
         vaa |-> view_vaa(price_feed_update, binary)]

(***************************************************************************)
(* Identifier text: PriceIdInput (crate::serde_hex) and RpcPriceIdentifier *)
(* (serde with = "hex")                                                    *)
(***************************************************************************)
HasPrefix(text) ==
    /\ Len(text) >= 2
    /\ text[1] = "0"
    /\ text[2] \in {"x", "X"}

StripPrefix(text) == IF HasPrefix(text) THEN SubSeq(text, 3, Len(text)) ELSE text

\* hex::FromHex for [u8; 32]: decode_to_slice
from_hex_array(text) ==
    IF Len(text) % 2 # 0 THEN Err([kind |-> "OddLength"])
    ELSE IF Len(text) \div 2 # IdLen THEN Err([kind |-> "InvalidStringLength"])
    ELSE hex_decode(text)

\* crate::serde_hex::deserialize: optional 0x/0X, then exactly 32 bytes of hex
serde_hex_deserialize(text) ==
    LET digits == StripPrefix(text)
    IN  IF \E i \in 1..Len(digits) : ~IsHexDigit(digits[i]) THEN Err([kind |-> "InvalidHex"])
        ELSE IF Len(digits) # 2 * IdLen THEN Err([kind |-> "InvalidLength"])
        ELSE hex_decode(digits)

\* crate::serde_hex::serialize: lower-case, no prefix
serde_hex_serialize(bytes) == hex_encode(bytes)

id_serialize(type, bytes) ==
    IF type = "PriceIdInput" THEN serde_hex_serialize(bytes) ELSE hex_encode(bytes)

id_deserialize(type, text) ==
    IF type = "PriceIdInput" THEN serde_hex_deserialize(text) ELSE from_hex_array(text)

(***************************************************************************)
(* RpcPrice as JSON: price and conf through pyth_sdk::utils::as_string,    *)
(* expo and publish_time as JSON numbers                                   *)
(***************************************************************************)
JsonString(text) == [json |-> "string", text |-> text]
JsonNumber(text) == [json |-> "number", text |-> text]

\* an i64 pattern that is the sign extension of an i32
FitsI32(x) ==
    \/ x[1] = 0 /\ x[2] = 0 /\ x[3] < SignLimb
    \/ x[1] = Base - 1 /\ x[2] = Base - 1 /\ x[3] >= SignLimb

\* as_string::deserialize: a JSON string, then str::parse
as_string_deserialize(token, signed) ==
    IF token.json # "string" THEN Err("invalid type") ELSE from_str(token.text, signed)

\* serde_json reading a signed integer: a JSON number without '+'
json_integer_deserialize(token) ==
    IF token.json # "number" \/ token.text = <<>> \/ Head(token.text) = "+"
    THEN Err("invalid type")
    ELSE from_str(token.text, TRUE)

RpcPrice_serialize(p) ==
    [price |-> JsonString(i64_to_string(p.price)),
     conf |-> JsonString(u64_to_string(p.conf)),
     expo |-> JsonNumber(i64_to_string(p.expo)),
     publish_time |-> JsonNumber(i64_to_string(p.publish_time))]

\* a plausible slip: conf declared i64
RpcPrice_deserialize_signed_conf(j) ==
    LET price == as_string_deserialize(j.price, TRUE)
        conf == as_string_deserialize(j.conf, TRUE)
        expo == json_integer_deserialize(j.expo)
        publish_time == json_integer_deserialize(j.publish_time)
    IN  IF ~price.ok THEN price
        ELSE IF ~conf.ok THEN conf
        ELSE IF ~expo.ok THEN expo
        ELSE IF ~FitsI32(expo.val) THEN Err("invalid value")
        ELSE IF ~publish_time.ok THEN publish_time
        ELSE Ok(RpcPrice(price.val, conf.val, expo.val, publish_time.val))

RpcPrice_deserialize(j) ==
    LET price == as_string_deserialize(j.price, TRUE)
        conf == as_string_deserialize(j.conf, FALSE)
        expo == json_integer_deserialize(j.expo)
        publish_time == json_integer_deserialize(j.publish_time)
    IN  IF ~price.ok THEN price
        ELSE IF ~conf.ok THEN conf
        ELSE IF ~expo.ok THEN expo
        ELSE IF ~FitsI32(expo.val) THEN Err("invalid value")
        ELSE IF ~publish_time.ok THEN publish_time
        ELSE Ok(RpcPrice(price.val, conf.val, expo.val, publish_time.val))

(***************************************************************************)
(* The envelope run: a producer fills the envelope, the converter reads it *)
(***************************************************************************)
ViewIdle == [u |-> PriceFeedUpdate(IdC, PriceC, PriceC, None, None, None, None),
             verbose |-> FALSE, binary |-> FALSE]
IdIdle == [kind |-> "bytes", val |-> IdC]
RpIdle == RpcPrice(Zero64, Zero64, Zero64, Zero64)

EnvIdle ==
    /\ price_update = [binary |-> [encoding |-> "Hex", data |-> <<>>], parsed |-> None]
    /\ raw = <<>>
    /\ originals = <<>>
    /\ result = None
ViewIsIdle == view_in = ViewIdle /\ view_out = None
IdIsIdle == id_type = "RpcPriceIdentifier" /\ id_start = IdIdle /\ id_cur = IdIdle /\ id_n = 0
RpIsIdle == rp_in = RpIdle /\ rp_json = None /\ rp_out = None

Init ==
    /\ \E e \in EncodingType, p \in {None, Some(<<>>)} :
          price_update = [binary |-> [encoding |-> e, data |-> <<>>], parsed |-> p]
    /\ raw = <<>>
    /\ originals = <<>>
    /\ result = None
    /\ ViewIsIdle /\ IdIsIdle /\ RpIsIdle

\* the producer encodes one raw update under the envelope's tag
EncodeStr(bytes) ==
    /\ result = None
    /\ Len(price_update.binary.data) < MaxData
    /\ price_update' = [price_update EXCEPT !.binary.data =
                           Append(@, encode_str(price_update.binary.encoding, bytes))]
    /\ raw' = Append(raw, Some(bytes))
    /\ UNCHANGED <<originals, result, viewVars, idVars, rpVars>>

\* a data entry that was not produced by encode_str under this tag
PushText(text) ==
    /\ result = None
    /\ Len(price_update.binary.data) < MaxData
    /\ price_update' = [price_update EXCEPT !.binary.data = Append(@, text)]
    /\ raw' = Append(raw, None)
    /\ UNCHANGED <<originals, result, viewVars, idVars, rpVars>>

\* the producer projects one domain update into the parsed list
PushParsed(u) ==
    /\ result = None
    /\ price_update.parsed.some
    /\ Len(price_update.parsed.val) < MaxParsed
    /\ price_update' = [price_update EXCEPT !.parsed =
                           Some(Append(@.val, ParsedPriceUpdate_from(u)))]
    /\ originals' = Append(originals, u)
    /\ UNCHANGED <<raw, result, viewVars, idVars, rpVars>>

\* PriceFeedsWithUpdateData::try_from(price_update)
Convert ==
    /\ result = None
    /\ result' = Some(try_from(price_update))
    /\ UNCHANGED <<price_update, raw, originals, viewVars, idVars, rpVars>>

Next ==
    \/ \E bytes \in ByteSeqs : EncodeStr(bytes)
    \/ \E text \in ForeignTexts : PushText(text)
    \/ \E u \in EnvUpdates : PushParsed(u)
    \/ Convert

Spec == Init /\ [][Next]_vars

(***************************************************************************)
(* Properties of the envelope-to-domain conversion                         *)
(***************************************************************************)
Converted == result.some /\ result.val.ok
Data == price_update.binary.data
DecodesAsHex(text) == hex_decode(text).ok

\* C1: when every data entry was produced by encode_str under the envelope's
\* tag (Hex or Base64), the returned update_data is the original byte
\* sequences, entry by entry and in order.
C1_DecodesWithEnvelopeTag ==
    (Converted /\ \A i \in 1..Len(raw) : raw[i].some)
        => result.val.val.update_data = [i \in 1..Len(raw) |-> raw[i].val]

\* C2: an envelope whose parsed list is None converts to the
\* missing-parsed-data error, whatever its tag and data entries.
C2_MissingParsedFails ==
    (result.some /\ ~price_update.parsed.some)
        => /\ ~result.val.ok
           /\ result.val = Err(MissingParsedData)

C2_Witness ==
    /\ result.some
    /\ ~price_update.parsed.some
    /\ ~result.val.ok
    /\ Len(Data) = 2
    /\ \E i \in 1..2 : ~DecodesAsHex(Data[i])
    /\ \E i \in 1..2 : DecodesAsHex(Data[i]) /\ Data[i] # <<>>

\* C3: with a non-empty parsed list, every reconstructed PriceFeedUpdate has
\* update_data None, whatever the projected update carried and whatever the
\* data list holds.
C3_UpdateDataAbsent ==
    (Converted /\ Len(price_update.parsed.val) > 0)
        => \A i \in 1..Len(result.val.val.price_feeds) :
              result.val.val.price_feeds[i].update_data = None

C3_Witness ==
    /\ Converted
    /\ Len(Data) > 0
    /\ \E i \in 1..Len(originals) :
          /\ originals[i].update_data.some
          /\ originals[i].update_data.val # <<>>
          /\ result.val.val.price_feeds[i].update_data = None

\* C6: with a parsed list present the conversion never fails on a data entry
\* that does not decode: the entry is the empty byte sequence at its position,
\* and the other entries and the price feeds are what they are when that
\* entry is replaced by one that decodes.
C6_DecodeFailureIsEmpty ==
    (result.some /\ price_update.parsed.some)
        => /\ result.val.ok
           /\ \A i \in 1..Len(Data) :
                ~DecodesAsHex(Data[i]) =>
                   /\ result.val.val.update_data[i] = <<>>
                   /\ \A b \in ByteSeqs :
                        LET alt == try_from([price_update EXCEPT
                                                !.binary.data[i] = hex_encode(b)])
                        IN  /\ alt.ok
                            /\ alt.val.update_data[i] = b
                            /\ alt.val.price_feeds = result.val.val.price_feeds
                            /\ \A j \in 1..Len(Data) :
                                  j # i => alt.val.update_data[j] =
                                               result.val.val.update_data[j]

C6_Witness ==
    /\ Converted
    /\ Len(Data) = 2
    /\ ~DecodesAsHex(Data[1])
    /\ result.val.val.update_data[1] = <<>>
    /\ result.val.val.update_data[2] # <<>>
    /\ Len(result.val.val.price_feeds) > 0

\* C9: projecting u into a ParsedPriceUpdate and converting the envelope back
\* gives u again in identifier, both prices, slot, received_at and
\* prev_publish_time, absent values staying absent; only update_data is None.
C9_ProjectionRoundTrip ==
    Converted =>
        /\ Len(result.val.val.price_feeds) = Len(originals)
        /\ \A i \in 1..Len(originals) :
              LET back == result.val.val.price_feeds[i]
                  u == originals[i]
              IN  /\ back.price_feed.id = u.price_feed.id
                  /\ back.price_feed.price = u.price_feed.price
                  /\ back.price_feed.ema_price = u.price_feed.ema_price
                  /\ back.slot = u.slot
                  /\ back.received_at = u.received_at
                  /\ back.prev_publish_time = u.prev_publish_time
                  /\ back.update_data = None
                  /\ back = [u EXCEPT !.update_data = None]

C9_Witness ==
    /\ Converted
    /\ Len(originals) = 2
    /\ \E i \in 1..2 : originals[i].update_data.some /\ originals[i].slot.some
    /\ \E i \in 1..2 : /\ ~originals[i].slot.some
                       /\ ~originals[i].prev_publish_time.some
                       /\ originals[i].received_at.some
                       /\ ~result.val.val.price_feeds[i].slot.some

\* C10: a present parsed list, the empty one included, always converts;
\* price_feeds follows the parsed list and update_data the data list, each in
\* its own length and order.
C10_ListsIndependent ==
    (result.some /\ price_update.parsed.some)
        => /\ result.val.ok
           /\ Len(result.val.val.price_feeds) = Len(price_update.parsed.val)
           /\ \A i \in 1..Len(price_update.parsed.val) :
                 /\ result.val.val.price_feeds[i].price_feed.id
                       = price_update.parsed.val[i].id
                 /\ result.val.val.price_feeds[i].price_feed.price
                       = price_update.parsed.val[i].price
           /\ Len(result.val.val.update_data) = Len(Data)
           /\ \A i \in 1..Len(Data) :
                 /\ result.val.val.update_data[i] = decode_entry(Data[i])
                 /\ (raw[i].some /\ price_update.binary.encoding = "Hex")
                       => result.val.val.update_data[i] = raw[i].val

C10_Witness ==
    /\ Converted
    /\ price_update.parsed.val = <<>>
    /\ result.val.val.price_feeds = <<>>
    /\ Len(result.val.val.update_data) = 2
    /\ result.val.val.update_data[1] # result.val.val.update_data[2]

(***************************************************************************)
(* The view run: one call of from_price_feed_update                        *)
(***************************************************************************)
InitView ==
    /\ view_in \in [u : ViewUpdates, verbose : BOOLEAN, binary : BOOLEAN]
    /\ view_out = None
    /\ EnvIdle /\ IdIsIdle /\ RpIsIdle

Build ==
    /\ view_out = None
    /\ view_out' = Some(from_price_feed_update(view_in.u, view_in.verbose, view_in.binary))
    /\ UNCHANGED <<view_in, envVars, idVars, rpVars>>

NextView == Build

SpecView == InitView /\ [][NextView]_vars

\* C4: the view has a vaa string iff binary is set and the update carries
\* update_data; with binary set and update_data absent there is none, and the
\* view is built all the same.  Both values of verbose.
C4_VaaIffBinaryAndData ==
    view_out.some =>
        /\ view_out.val.vaa.some <=> (view_in.binary /\ view_in.u.update_data.some)
        /\ ~view_in.binary => view_out.val.vaa = None
        /\ view_out.val.id = view_in.u.price_feed.id

C4_Witness ==
    /\ view_out.some
    /\ view_in.binary
    /\ ~view_in.u.update_data.some
    /\ view_out.val.vaa = None
    /\ view_out.val.metadata.some

\* C5: the view has metadata iff verbose is set, for every update (slot,
\* received_at and prev_publish_time all absent included) and both values of
\* binary.
C5_MetadataIffVerbose ==
    view_out.some => (view_out.val.metadata.some <=> view_in.verbose)

C5_Witness ==
    /\ view_out.some
    /\ view_in.verbose
    /\ ~view_in.binary
    /\ view_in.u.slot = None
    /\ view_in.u.received_at = None
    /\ view_in.u.prev_publish_time = None
    /\ view_out.val.metadata.some
    /\ view_out.val.metadata.val.slot = None

(***************************************************************************)
(* The identifier run: serialise and deserialise in turn                   *)
(***************************************************************************)
ToUpper(c) == IF \E i \in 1..16 : HexLower[i] = c
              THEN HexUpper[CHOOSE i \in 1..16 : HexLower[i] = c] ELSE c
ToLower(c) == IF \E i \in 1..16 : HexUpper[i] = c
              THEN HexLower[CHOOSE i \in 1..16 : HexUpper[i] = c] ELSE c

\* the 64 digits of an identifier, written independently of hex_encode
IdDigits(id, style) ==
    [i \in 1..(2 * IdLen) |->
        LET b == id[(i + 1) \div 2]
            c == HexLower[(IF i % 2 = 1 THEN b \div 16 ELSE b % 16) + 1]
        IN  IF style = "upper" \/ (style = "mixed" /\ i % 4 < 2) THEN ToUpper(c) ELSE c]

Ids == {IdA, IdB, IdC}
Prefixes == {<<>>, <<"0", "x">>, <<"0", "X">>}
Styles == {"lower", "upper", "mixed"}

ValidIdTexts == {p \o IdDigits(id, st) : p \in Prefixes, id \in Ids, st \in Styles}

InvalidIdTexts ==
    { <<>>,
      SubSeq(IdDigits(IdA, "lower"), 1, 2 * IdLen - 2),
      SubSeq(IdDigits(IdA, "lower"), 1, 2 * IdLen - 1),
      <<"0", "x">> \o SubSeq(IdDigits(IdB, "upper"), 1, 2 * IdLen - 2),
      [IdDigits(IdB, "lower") EXCEPT ![5] = "g"],
      IdDigits(IdC, "lower") \o <<"0", "0">> }

\* 64 hex digits in any letter case, with or without a leading 0x / 0X
IsValidIdText(text) ==
    /\ Len(StripPrefix(text)) = 2 * IdLen
    /\ \A i \in 1..(2 * IdLen) : IsHexDigit(StripPrefix(text)[i])

\* the lower-case, unprefixed form of a text
Canonical(text) == [i \in 1..Len(StripPrefix(text)) |-> ToLower(StripPrefix(text)[i])]

InitId ==
    /\ id_type \in {"PriceIdInput", "RpcPriceIdentifier"}
    /\ id_start \in {[kind |-> "bytes", val |-> id] : id \in Ids}
                    \cup {[kind |-> "text", val |-> t] : t \in ValidIdTexts \cup InvalidIdTexts}
    /\ id_cur = id_start
    /\ id_n = 0
    /\ EnvIdle /\ ViewIsIdle /\ RpIsIdle

IdSerialize ==
    /\ id_n < MaxSteps
    /\ id_cur.kind = "bytes"
    /\ id_cur' = [kind |-> "text", val |-> id_serialize(id_type, id_cur.val)]
    /\ id_n' = id_n + 1
    /\ UNCHANGED <<id_type, id_start, envVars, viewVars, rpVars>>

IdDeserialize ==
    /\ id_n < MaxSteps
    /\ id_cur.kind = "text"
    /\ LET r == id_deserialize(id_type, id_cur.val)
       IN  id_cur' = IF r.ok THEN [kind |-> "bytes", val |-> r.val]
                     ELSE [kind |-> "error", val |-> r.err.kind]
    /\ id_n' = id_n + 1
    /\ UNCHANGED <<id_type, id_start, envVars, viewVars, rpVars>>

NextId == IdSerialize \/ IdDeserialize

SpecId == InitId /\ [][NextId]_vars

\* C7 as stated: for both identifier types, parse(to_hex(x)) = x for every
\* 32-byte x, and to_hex(parse(text)) is the lower-case unprefixed 64-digit
\* form for every valid text, with or without 0x / 0X, in any letter case.
C7_RoundTripBothTypes ==
    /\ (id_start.kind = "bytes" /\ id_n = 2) => id_cur = id_start
    /\ (id_start.kind = "text" /\ IsValidIdText(id_start.val))
          => /\ id_n = 1 => id_cur.kind = "bytes"
             /\ id_n = 2 => id_cur = [kind |-> "text", val |-> Canonical(id_start.val)]

\* C7 amended: the byte round trip holds for both types; the text round trip
\* holds for PriceIdInput with or without prefix and for RpcPriceIdentifier
\* without prefix, in any letter case; RpcPriceIdentifier rejects a prefixed
\* text.
C7_RoundTripPrefixOnlyInput ==
    /\ (id_start.kind = "bytes" /\ id_n = 2) => id_cur = id_start
    /\ ( /\ id_start.kind = "text"
         /\ IsValidIdText(id_start.val)
         /\ (id_type = "PriceIdInput" \/ ~HasPrefix(id_start.val)) )
          => /\ id_n = 1 => id_cur.kind = "bytes"
             /\ id_n = 2 => /\ id_cur = [kind |-> "text", val |-> Canonical(id_start.val)]
                            /\ Len(id_cur.val) = 2 * IdLen
    /\ ( /\ id_n >= 1
         /\ id_type = "RpcPriceIdentifier"
         /\ id_start.kind = "text"
         /\ IsValidIdText(id_start.val)
         /\ HasPrefix(id_start.val) )
          => id_cur.kind = "error"

C7_Witness ==
    /\ id_n = 2
    /\ id_type = "RpcPriceIdentifier"
    /\ id_start.kind = "text"
    /\ id_start.val = IdDigits(IdA, "mixed")
    /\ id_cur.kind = "text"
    /\ id_cur.val = IdDigits(IdA, "lower")
    /\ id_cur.val # id_start.val

(***************************************************************************)
(* The RpcPrice run: serialise, then deserialise                           *)
(***************************************************************************)
\* bit patterns within Near of 0, of 2^63 and of 2^53: as i64 the values
\* around 0, i64::MIN, i64::MAX; as u64 around 0, u64::MAX and 2^63
Pivots == {Zero64, I64Min, <<0, 32, 0, 0>>}
Patterns == UNION {{wrapping_add(b, k), wrapping_sub(b, k)} : b \in Pivots, k \in 0..Near}

InitRp ==
    /\ rp_in \in {RpcPrice(price, conf, expo, publish_time) :
                     price \in Patterns, conf \in Patterns,
                     expo \in {FromInt(-8), FromInt(2147483647)},
                     publish_time \in {FromNat(1700000000), I64Min}}
    /\ rp_json = None
    /\ rp_out = None
    /\ EnvIdle /\ ViewIsIdle /\ IdIsIdle

RpSerialize ==
    /\ rp_json = None
    /\ rp_json' = Some(RpcPrice_serialize(rp_in))
    /\ UNCHANGED <<rp_in, rp_out, envVars, viewVars, idVars>>

RpDeserialize ==
    /\ rp_json.some
    /\ rp_out = None
    /\ rp_out' = Some(RpcPrice_deserialize(rp_json.val))
    /\ UNCHANGED <<rp_in, rp_json, envVars, viewVars, idVars>>

NextRp == RpSerialize \/ RpDeserialize

SpecRp == InitRp /\ [][NextRp]_vars

IsDecimalText(text, signed) ==
    LET digits == IF signed /\ Len(text) > 0 /\ Head(text) = "-" THEN Tail(text) ELSE text
    IN  /\ Len(digits) > 0
        /\ \A i \in 1..Len(digits) : IsDecDigit(digits[i])

\* C8: price and conf are written as decimal strings, and reading the
\* written form back gives the same RpcPrice: price exact over i64 (minimum
\* and maximum included), conf exact over u64 (maximum included), expo and
\* publish_time unchanged.
C8_RpcPriceRoundTrip ==
    /\ rp_json.some =>
          /\ rp_json.val.price.json = "string"
          /\ rp_json.val.conf.json = "string"
          /\ IsDecimalText(rp_json.val.price.text, TRUE)
          /\ IsDecimalText(rp_json.val.conf.text, FALSE)
    /\ rp_out.some =>
          /\ rp_out.val.ok
          /\ rp_out.val.val.price = rp_in.price
          /\ rp_out.val.val.conf = rp_in.conf
          /\ rp_out.val.val.expo = rp_in.expo
          /\ rp_out.val.val.publish_time = rp_in.publish_time

C8_Witness ==
    /\ rp_out.some
    /\ rp_in.price = I64Min
    /\ rp_in.conf = U64Max
    /\ rp_json.val.price.text = <<"-", "9", "2", "2", "3", "3", "7", "2", "0", "3", "6",
                                  "8", "5", "4", "7", "7", "5", "8", "0", "8">>
    /\ rp_out.val.ok
    /\ rp_out.val.val.price = I64Min
    /\ rp_out.val.val.conf = U64Max

====
